---------------------------- MODULE Spec2Model ----------------------------
(***************************************************************************)
(* A model of etherscan-rs (src/lib.rs): the endpoint parameter records    *)
(* and their encoders, the endpoint methods of AsyncClient, and the        *)
(* dispatcher AsyncClient::get with the two awaits it suspends at.         *)
(*                                                                         *)
(* A query string is modelled as the sequence of its <<key, value>> pairs  *)
(* before percent-encoding; an integer field is rendered as its decimal    *)
(* text and a bool as "true"/"false", as the URL form encoder does.        *)
(***************************************************************************)
EXTENDS Integers, Sequences, FiniteSets, TLC

VARIABLES
    key_arg,      \* the api_key argument AsyncClient::new was called with
    api_key,      \* AsyncClient.api_key
    pc,           \* per caller: "idle", "send" (suspended at send().await),
                  \* "json" (suspended at json().await) or "returned"
    call,         \* per caller: the endpoint method called and its arguments
    get_in,       \* per caller: the (module, action, params) handed to get()
    request,      \* per caller: the request get() built and sent
    resp,         \* per caller: what the HTTP exchange delivered to get()
    ret,          \* per caller: the Result the endpoint method returned
    sent,         \* the number of requests handed to the HTTP client
    results,      \* the tags (Ok / Err) of the Results returned so far, in order
    topic_query,  \* an EventLogTopicPaginatedQuery record
    topic_out,    \* what Serialize::serialize made of topic_query
    network,      \* the network the caller means the client to talk to
    hex_in,       \* an i64 handed to the methods that format it as hex
    hex_out       \* per such method: the fields of the record it built

vars == << key_arg, api_key, pc, call, get_in, request, resp, ret, sent,
           results, topic_query, topic_out, network, hex_in, hex_out >>

\* What the calls of the client leave alone.
other_vars == << topic_query, topic_out, network, hex_in, hex_out >>

client_vars == << key_arg, api_key, pc, call, get_in, request, resp, ret,
                  sent, results >>

(***************************************************************************)
(* Bounds and input pools.                                                 *)
(***************************************************************************)
\* The number of endpoint calls one behaviour makes.
MaxCalls == 2

Keys == {"YourApiKeyToken", "K2"}
StrPool == {"", "0xA"}
IntPool == {0, 255}
VecPool == {<<"0xA">>, <<"0xA", "0xB", "0xC">>}
TopicPool == {"", "0xaa"}
OprPool == {"and", "or"}

\* The callers that may hold a call on the one shared client.
Callers == {"c1", "c2"}
\* The callers of Spec: one caller, awaiting each call before the next.
SeqCallers == {"c1"}
\* The endpoint methods the overlapping calls of SpecConc are drawn from.
ConcMethods == {"get_balance", "eth_get_block_number"}
\* The integers handed to the hex-formatting methods run from 0 to HexMax;
\* HexInputs adds values around the digit boundaries up to the largest
\* integer of the checker, and two negative values.
HexMax == 300
HexInputs ==
    (0..HexMax) \cup {4095, 4096, 65535, 65536, 1048576, 16777215,
                      268435456, 2147483647, -1, -255}
\* The networks the three base URLs of lib.rs 6-8 belong to.
Networks == {"mainnet", "goerli", "sepolia"}

(***************************************************************************)
(* Constants of lib.rs.                                                    *)
(***************************************************************************)
API_URL == "https://api.etherscan.io/api"
GOERLI_API_URL == "https://api-goerli.etherscan.io/api"
SEPOLIA_API_URL == "https://api-sepolia.etherscan.io/api"

(***************************************************************************)
(* Text conversions.                                                       *)
(***************************************************************************)
\* One digit of a number in lower-case hexadecimal (and decimal, for d < 10).
Digit(d) ==
    CASE d = 0 -> "0" [] d = 1 -> "1" [] d = 2 -> "2" [] d = 3 -> "3"
      [] d = 4 -> "4" [] d = 5 -> "5" [] d = 6 -> "6" [] d = 7 -> "7"
      [] d = 8 -> "8" [] d = 9 -> "9" [] d = 10 -> "a" [] d = 11 -> "b"
      [] d = 12 -> "c" [] d = 13 -> "d" [] d = 14 -> "e" [] d = 15 -> "f"

RECURSIVE Digits(_, _)
\* The digits of n >= 0 in the given base, without leading zeros.
Digits(n, base) ==
    IF n < base THEN Digit(n)
    ELSE Digits(n \div base, base) \o Digit(n % base)

\* Display of an i64: the decimal text the URL form encoder writes.
Dec(n) == IF n < 0 THEN "-" \o Digits(-n, 10) ELSE Digits(n, 10)

\* The number of hexadecimal digits of an i64.
HexWidth == 16

RECURSIVE ComplementDigits(_, _)
\* The last k hexadecimal digits of the one's complement of m >= 0.
ComplementDigits(m, k) ==
    IF k = 0 THEN ""
    ELSE ComplementDigits(m \div 16, k - 1) \o Digit(15 - (m % 16))

\* {:x} of an i64: the digits of a non-negative value; a negative value is
\* written as its 64-bit two's complement, 2^64 + n = NOT (-n - 1).
LowerHex(n) ==
    IF n >= 0 THEN Digits(n, 16) ELSE ComplementDigits(-n - 1, HexWidth)

\* A faulty variant of format_0x_x: format!("0x{:02x}", n), at least two
\* digits.
format_0x_02x(n) ==
    "0x" \o (IF n >= 0 /\ n < 16 THEN "0" ELSE "") \o LowerHex(n)

\* format!("0x{:x}", n)
format_0x_x(n) == "0x" \o LowerHex(n)

RECURSIVE join_trailing(_, _)
\* A faulty variant of join: the separator after every element.
join_trailing(v, sep) ==
    IF Len(v) = 0 THEN ""
    ELSE v[1] \o sep \o join_trailing(Tail(v), sep)

RECURSIVE join(_, _)
\* [&str]::join(sep)
join(v, sep) ==
    IF Len(v) = 0 THEN ""
    ELSE IF Len(v) = 1 THEN v[1]
    ELSE v[1] \o sep \o join(Tail(v), sep)

unit == [struct |-> "()", fields |-> <<>>]

(***************************************************************************)
(* The parameter records (lib.rs 12-300).  A declaration is the sequence of *)
(* its fields, in declaration order, each with its Rust type.              *)
(***************************************************************************)
\* lib.rs 13-17
BaseApiRequest ==
    << <<"module", "str">>,
       <<"action", "str">>,
       <<"apikey", "str">> >>
\* lib.rs 22-25
AddressTagQuery ==
    << <<"address", "str">>,
       <<"tag", "str">> >>
\* lib.rs 28-35
TxListPaginatedQuery ==
    << <<"address", "str">>,
       <<"startblock", "i64">>,
       <<"endblock", "i64">>,
       <<"page", "i64">>,
       <<"offset", "i64">>,
       <<"sort", "str">> >>
\* lib.rs 38-40
TxHashQuery ==
    << <<"txhash", "str">> >>
\* lib.rs 43-49
BlockRangePaginatedQuery ==
    << <<"startblock", "i64">>,
       <<"endblock", "i64">>,
       <<"page", "i64">>,
       <<"offset", "i64">>,
       <<"sort", "str">> >>
\* lib.rs 52-60
TokenEventsPaginatedQuery ==
    << <<"address", "str">>,
       <<"contractaddress", "str">>,
       <<"page", "i64">>,
       <<"offset", "i64">>,
       <<"startblock", "i64">>,
       <<"endblock", "i64">>,
       <<"sort", "str">> >>
\* lib.rs 63-69
AddressBlocktypePaginatedQuery ==
    << <<"address", "str">>,
       <<"blocktype", "str">>,
       <<"page", "i64">>,
       <<"offset", "i64">>,
       <<"sort", "str">> >>
\* lib.rs 72-80
ContractByAddressBlockRangePaginatedQuery ==
    << <<"address", "str">>,
       <<"contractaddress", "str">>,
       <<"page", "i64">>,
       <<"offset", "i64">>,
       <<"startblock", "i64">>,
       <<"endblock", "i64">>,
       <<"sort", "str">> >>
\* lib.rs 83-86
AddressBlockNumberQuery ==
    << <<"address", "str">>,
       <<"blockno", "i64">> >>
\* lib.rs 93-95
\* A faulty variant of AddressQuery: its field is named like a base field.
AddressQuery_action_field == << <<"action", "str">> >>
AddressQuery ==
    << <<"address", "str">> >>
\* lib.rs 98-100
ContractAddressQuery ==
    << <<"contractaddress", "str">> >>
\* lib.rs 110-112
BlockNumberQuery ==
    << <<"blockno", "i64">> >>
\* lib.rs 115-118
BlockTimestampQuery ==
    << <<"timestamp", "i64">>,
       <<"closest", "str">> >>
\* lib.rs 121-125
DateRangeQuery ==
    << <<"startdate", "str">>,
       <<"enddate", "str">>,
       <<"sort", "str">> >>
\* lib.rs 132-138
EventLogAddressPaginatedQuery ==
    << <<"address", "str">>,
       <<"fromblock", "i64">>,
       <<"toblock", "i64">>,
       <<"page", "i64">>,
       <<"offset", "i64">> >>
\* lib.rs 141-153
EventLogTopicPaginatedQuery ==
    << <<"fromblock", "i64">>,
       <<"toblock", "i64">>,
       <<"topic0", "str">>,
       <<"topic1", "str">>,
       <<"topic2", "str">>,
       <<"topic3", "str">>,
       <<"topic0_1_opr", "str">>,
       <<"topic1_2_opr", "str">>,
       <<"topic2_3_opr", "str">>,
       <<"page", "i64">>,
       <<"offset", "i64">> >>
\* lib.rs 186-189
BlockNumberBoolQuery ==
    << <<"tag", "str">>,
       <<"boolean", "bool">> >>
\* lib.rs 192-195
BlockNumberIndexQuery ==
    << <<"tag", "str">>,
       <<"index", "str">> >>
\* lib.rs 198-200
BlockNumberHexQuery ==
    << <<"tag", "str">> >>
\* lib.rs 203-205
RawTxQuery ==
    << <<"hex", "str">> >>
\* lib.rs 208-212
CallQuery ==
    << <<"to", "str">>,
       <<"data", "str">>,
       <<"tag", "str">> >>
\* lib.rs 215-219
StoragePositionQuery ==
    << <<"address", "str">>,
       <<"position", "str">>,
       <<"tag", "str">> >>
\* lib.rs 222-228
EstimateGasQuery ==
    << <<"data", "str">>,
       <<"to", "str">>,
       <<"value", "str">>,
       <<"gas", "str">>,
       <<"gasPrice", "str">> >>
\* lib.rs 235-237
ContractAddressesQuery ==
    << <<"contractaddresses", "str">> >>
\* lib.rs 240-243
ContractByAddressQuery ==
    << <<"address", "str">>,
       <<"contractaddress", "str">> >>
\* lib.rs 246-251
ContractByAddressPaginatedQuery ==
    << <<"address", "str">>,
       <<"contractaddress", "str">>,
       <<"page", "i64">>,
       <<"offset", "i64">> >>
\* lib.rs 254-257
ContractByBlockNumberQuery ==
    << <<"contractaddress", "str">>,
       <<"blockno", "i64">> >>
\* lib.rs 260-264
ContractByAddressBlockNumberQuery ==
    << <<"address", "str">>,
       <<"contractaddress", "str">>,
       <<"blockno", "i64">> >>
\* lib.rs 267-271
ContractAddressPaginatedQuery ==
    << <<"contractaddress", "str">>,
       <<"page", "i64">>,
       <<"offset", "i64">> >>
\* lib.rs 274-278
AddressPaginatedQuery ==
    << <<"address", "str">>,
       <<"page", "i64">>,
       <<"offset", "i64">> >>
\* lib.rs 285-287
GasPriceQuery ==
    << <<"gasprice", "str">> >>
\* lib.rs 294-300
BlockchainSizeQuery ==
    << <<"startdate", "str">>,
       <<"enddate", "str">>,
       <<"clienttype", "str">>,
       <<"syncmode", "str">>,
       <<"sort", "str">> >>

\* The declaration of a record type by name; "()" is the unit record, which
\* has no fields.
StructDecl(s) ==
    CASE s = "BaseApiRequest" -> BaseApiRequest
      [] s = "AddressTagQuery" -> AddressTagQuery
      [] s = "TxListPaginatedQuery" -> TxListPaginatedQuery
      [] s = "TxHashQuery" -> TxHashQuery
      [] s = "BlockRangePaginatedQuery" -> BlockRangePaginatedQuery
      [] s = "TokenEventsPaginatedQuery" -> TokenEventsPaginatedQuery
      [] s = "AddressBlocktypePaginatedQuery" -> AddressBlocktypePaginatedQuery
      [] s = "ContractByAddressBlockRangePaginatedQuery" -> ContractByAddressBlockRangePaginatedQuery
      [] s = "AddressBlockNumberQuery" -> AddressBlockNumberQuery
      [] s = "AddressQuery" -> AddressQuery
      [] s = "ContractAddressQuery" -> ContractAddressQuery
      [] s = "BlockNumberQuery" -> BlockNumberQuery
      [] s = "BlockTimestampQuery" -> BlockTimestampQuery
      [] s = "DateRangeQuery" -> DateRangeQuery
      [] s = "EventLogAddressPaginatedQuery" -> EventLogAddressPaginatedQuery
      [] s = "EventLogTopicPaginatedQuery" -> EventLogTopicPaginatedQuery
      [] s = "BlockNumberBoolQuery" -> BlockNumberBoolQuery
      [] s = "BlockNumberIndexQuery" -> BlockNumberIndexQuery
      [] s = "BlockNumberHexQuery" -> BlockNumberHexQuery
      [] s = "RawTxQuery" -> RawTxQuery
      [] s = "CallQuery" -> CallQuery
      [] s = "StoragePositionQuery" -> StoragePositionQuery
      [] s = "EstimateGasQuery" -> EstimateGasQuery
      [] s = "ContractAddressesQuery" -> ContractAddressesQuery
      [] s = "ContractByAddressQuery" -> ContractByAddressQuery
      [] s = "ContractByAddressPaginatedQuery" -> ContractByAddressPaginatedQuery
      [] s = "ContractByBlockNumberQuery" -> ContractByBlockNumberQuery
      [] s = "ContractByAddressBlockNumberQuery" -> ContractByAddressBlockNumberQuery
      [] s = "ContractAddressPaginatedQuery" -> ContractAddressPaginatedQuery
      [] s = "AddressPaginatedQuery" -> AddressPaginatedQuery
      [] s = "GasPriceQuery" -> GasPriceQuery
      [] s = "BlockchainSizeQuery" -> BlockchainSizeQuery
      [] s = "()" -> <<>>

\* lib.rs 354-360
get_balance(a) ==
    [module |-> "account", action |-> "balance",
     params |-> [struct |-> "AddressTagQuery", fields |-> <<
             <<"address", a.address>>,
             <<"tag", "latest">> >>]]
\* lib.rs 362-369
get_balance_multi(a) ==
    [module |-> "account", action |-> "balancemulti",
     params |-> [struct |-> "AddressTagQuery", fields |-> <<
             <<"address", join(a.addresses, ",")>>,
             <<"tag", "latest">> >>]]
\* lib.rs 371-381
get_tx_list(a) ==
    [module |-> "account", action |-> "txlist",
     params |-> [struct |-> "TxListPaginatedQuery", fields |-> <<
             <<"address", a.address>>,
             <<"startblock", a.start_block>>,
             <<"endblock", a.end_block>>,
             <<"page", a.page>>,
             <<"offset", a.offset>>,
             <<"sort", a.sort>> >>]]
\* lib.rs 383-393
get_tx_list_internal(a) ==
    [module |-> "account", action |-> "txlistinternal",
     params |-> [struct |-> "TxListPaginatedQuery", fields |-> <<
             <<"address", a.address>>,
             <<"startblock", a.start_block>>,
             <<"endblock", a.end_block>>,
             <<"page", a.page>>,
             <<"offset", a.offset>>,
             <<"sort", a.sort>> >>]]
\* lib.rs 395-400
get_tx_list_internal_by_hash(a) ==
    [module |-> "account", action |-> "txlistinternal",
     params |-> [struct |-> "TxHashQuery", fields |-> <<
             <<"txhash", a.tx_hash>> >>]]
\* lib.rs 402-411
get_tx_list_internal_by_blockrange(a) ==
    [module |-> "account", action |-> "txlistinternal",
     params |-> [struct |-> "BlockRangePaginatedQuery", fields |-> <<
             <<"startblock", a.start_block>>,
             <<"endblock", a.end_block>>,
             <<"page", a.page>>,
             <<"offset", a.offset>>,
             <<"sort", a.sort>> >>]]
\* lib.rs 413-424
get_erc20_transfer_events(a) ==
    [module |-> "account", action |-> "tokentx",
     params |-> [struct |-> "TokenEventsPaginatedQuery", fields |-> <<
             <<"address", a.address>>,
             <<"contractaddress", a.contract_address>>,
             <<"startblock", a.start_block>>,
             <<"endblock", a.end_block>>,
             <<"page", a.page>>,
             <<"offset", a.offset>>,
             <<"sort", a.sort>> >>]]
\* lib.rs 426-437
get_erc721_transfer_events(a) ==
    [module |-> "account", action |-> "tokennfttx",
     params |-> [struct |-> "TokenEventsPaginatedQuery", fields |-> <<
             <<"address", a.address>>,
             <<"contractaddress", a.contract_address>>,
             <<"startblock", a.start_block>>,
             <<"endblock", a.end_block>>,
             <<"page", a.page>>,
             <<"offset", a.offset>>,
             <<"sort", a.sort>> >>]]
\* lib.rs 439-450
get_erc1155_transfer_events(a) ==
    [module |-> "account", action |-> "tokennfttx",
     params |-> [struct |-> "TokenEventsPaginatedQuery", fields |-> <<
             <<"address", a.address>>,
             <<"contractaddress", a.contract_address>>,
             <<"startblock", a.start_block>>,
             <<"endblock", a.end_block>>,
             <<"page", a.page>>,
             <<"offset", a.offset>>,
             <<"sort", a.sort>> >>]]
\* lib.rs 452-461
get_mined_blocks(a) ==
    [module |-> "account", action |-> "getminedblocks",
     params |-> [struct |-> "AddressBlocktypePaginatedQuery", fields |-> <<
             <<"address", a.address>>,
             <<"blocktype", a.blocktype>>,
             <<"page", a.page>>,
             <<"offset", a.offset>>,
             <<"sort", a.sort>> >>]]
\* lib.rs 463-474
get_tx_list_beacon_withdrawal(a) ==
    [module |-> "account", action |-> "txlistbeacon",
     params |-> [struct |-> "ContractByAddressBlockRangePaginatedQuery", fields |-> <<
             <<"address", a.address>>,
             <<"contractaddress", a.contract_address>>,
             <<"page", a.page>>,
             <<"offset", a.offset>>,
             <<"startblock", a.start_block>>,
             <<"endblock", a.end_block>>,
             <<"sort", a.sort>> >>]]
\* lib.rs 476-482
get_balance_history(a) ==
    [module |-> "account", action |-> "balancehistory",
     params |-> [struct |-> "AddressBlockNumberQuery", fields |-> <<
             <<"address", a.address>>,
             <<"blockno", a.blockno>> >>]]
\* lib.rs 488-493
contract_abi(a) ==
    [module |-> "contract", action |-> "getabi",
     params |-> [struct |-> "AddressQuery", fields |-> <<
             <<"address", a.address>> >>]]
\* lib.rs 495-500
contract_source_code(a) ==
    [module |-> "contract", action |-> "getsourcecode",
     params |-> [struct |-> "AddressQuery", fields |-> <<
             <<"address", a.address>> >>]]
\* lib.rs 502-508
contract_creation(a) ==
    [module |-> "contract", action |-> "getsourcecode",
     params |-> [struct |-> "ContractAddressesQuery", fields |-> <<
             <<"contractaddresses", join(a.contract_addresses, ",")>> >>]]
\* lib.rs 513-518
transaction_status(a) ==
    [module |-> "transaction", action |-> "getstatus",
     params |-> [struct |-> "TxHashQuery", fields |-> <<
             <<"txhash", a.tx_hash>> >>]]
\* lib.rs 520-525
transaction_receipt_status(a) ==
    [module |-> "transaction", action |-> "gettxreceiptstatus",
     params |-> [struct |-> "TxHashQuery", fields |-> <<
             <<"txhash", a.tx_hash>> >>]]
\* lib.rs 530-535
block_reward(a) ==
    [module |-> "block", action |-> "getblockreward",
     params |-> [struct |-> "BlockNumberQuery", fields |-> <<
             <<"blockno", a.blockno>> >>]]
\* lib.rs 537-542
block_countdown(a) ==
    [module |-> "block", action |-> "getblockcountdown",
     params |-> [struct |-> "BlockNumberQuery", fields |-> <<
             <<"blockno", a.blockno>> >>]]
\* lib.rs 544-550
block_number_by_timestamp(a) ==
    [module |-> "block", action |-> "getblocknobytime",
     params |-> [struct |-> "BlockTimestampQuery", fields |-> <<
             <<"timestamp", a.timestamp>>,
             <<"closest", a.closest>> >>]]
\* lib.rs 552-559
daily_average_blocksize(a) ==
    [module |-> "block", action |-> "getdailyavgblocksize",
     params |-> [struct |-> "DateRangeQuery", fields |-> <<
             <<"startdate", a.start_date>>,
             <<"enddate", a.end_date>>,
             <<"sort", a.sort>> >>]]
\* lib.rs 561-568
daily_block_count(a) ==
    [module |-> "block", action |-> "getdailyblockcount",
     params |-> [struct |-> "DateRangeQuery", fields |-> <<
             <<"startdate", a.start_date>>,
             <<"enddate", a.end_date>>,
             <<"sort", a.sort>> >>]]
\* lib.rs 570-577
daily_block_rewards(a) ==
    [module |-> "block", action |-> "getdailyblockrewards",
     params |-> [struct |-> "DateRangeQuery", fields |-> <<
             <<"startdate", a.start_date>>,
             <<"enddate", a.end_date>>,
             <<"sort", a.sort>> >>]]
\* lib.rs 579-586
daily_block_time(a) ==
    [module |-> "block", action |-> "getdailyblocktime",
     params |-> [struct |-> "DateRangeQuery", fields |-> <<
             <<"startdate", a.start_date>>,
             <<"enddate", a.end_date>>,
             <<"sort", a.sort>> >>]]
\* lib.rs 588-595
daily_uncle_block_count(a) ==
    [module |-> "block", action |-> "getdailyuncleblockcount",
     params |-> [struct |-> "DateRangeQuery", fields |-> <<
             <<"startdate", a.start_date>>,
             <<"enddate", a.end_date>>,
             <<"sort", a.sort>> >>]]
\* lib.rs 602-611
logs_by_address(a) ==
    [module |-> "logs", action |-> "getLogs",
     params |-> [struct |-> "EventLogAddressPaginatedQuery", fields |-> <<
             <<"address", a.address>>,
             <<"fromblock", a.from_block>>,
             <<"toblock", a.to_block>>,
             <<"page", a.page>>,
             <<"offset", a.offset>> >>]]
\* lib.rs 646-648
eth_get_block_number ==
    [module |-> "proxy", action |-> "eth_blockNumber",
     params |-> unit]
\* lib.rs 650-656
eth_get_block_by_number(a) ==
    [module |-> "proxy", action |-> "eth_getBlockByNumber",
     params |-> [struct |-> "BlockNumberBoolQuery", fields |-> <<
             <<"tag", format_0x_x(a.blockno)>>,
             <<"boolean", a.show_full_tx>> >>]]
\* lib.rs 658-664
eth_get_uncle_by_block_number_and_index(a) ==
    [module |-> "proxy", action |-> "eth_getUncleByBlockNumberAndIndex",
     params |-> [struct |-> "BlockNumberIndexQuery", fields |-> <<
             <<"tag", format_0x_x(a.blockno)>>,
             <<"index", format_0x_x(a.index)>> >>]]
\* lib.rs 666-671
eth_get_transaction_by_hash(a) ==
    [module |-> "proxy", action |-> "eth_getTransactionByHash",
     params |-> [struct |-> "TxHashQuery", fields |-> <<
             <<"txhash", a.tx_hash>> >>]]
\* lib.rs 673-679
eth_get_transaction_by_block_number_and_index(a) ==
    [module |-> "proxy", action |-> "eth_getTransactionByBlockNumberAndIndex",
     params |-> [struct |-> "BlockNumberIndexQuery", fields |-> <<
             <<"tag", format_0x_x(a.blockno)>>,
             <<"index", format_0x_x(a.index)>> >>]]
\* lib.rs 681-687
eth_get_transaction_count(a) ==
    [module |-> "proxy", action |-> "eth_getTransactionCount",
     params |-> [struct |-> "AddressTagQuery", fields |-> <<
             <<"address", a.address>>,
             <<"tag", a.tag>> >>]]
\* lib.rs 689-694
eth_send_raw_transaction(a) ==
    [module |-> "proxy", action |-> "eth_sendRawTransaction",
     params |-> [struct |-> "RawTxQuery", fields |-> <<
             <<"hex", a.hex>> >>]]
\* lib.rs 696-701
eth_get_transaction_receipt(a) ==
    [module |-> "proxy", action |-> "eth_getTransactionReceipt",
     params |-> [struct |-> "TxHashQuery", fields |-> <<
             <<"txhash", a.tx_hash>> >>]]
\* lib.rs 703-710
eth_call(a) ==
    [module |-> "proxy", action |-> "eth_call",
     params |-> [struct |-> "CallQuery", fields |-> <<
             <<"to", a.to>>,
             <<"data", a.data>>,
             <<"tag", a.tag>> >>]]
\* lib.rs 712-718
eth_get_code(a) ==
    [module |-> "proxy", action |-> "eth_getCode",
     params |-> [struct |-> "AddressTagQuery", fields |-> <<
             <<"address", a.address>>,
             <<"tag", a.tag>> >>]]
\* lib.rs 720-727
eth_get_storage_at(a) ==
    [module |-> "proxy", action |-> "eth_getStorageAt",
     params |-> [struct |-> "StoragePositionQuery", fields |-> <<
             <<"address", a.address>>,
             <<"position", a.position>>,
             <<"tag", a.tag>> >>]]
\* lib.rs 729-731
eth_gas_price ==
    [module |-> "proxy", action |-> "eth_gasPrice",
     params |-> unit]
\* lib.rs 733-742
eth_estimate_gas(a) ==
    [module |-> "proxy", action |-> "eth_estimateGas",
     params |-> [struct |-> "EstimateGasQuery", fields |-> <<
             <<"to", a.to>>,
             <<"data", a.data>>,
             <<"value", format_0x_x(a.value)>>,
             <<"gas", format_0x_x(a.gas)>>,
             <<"gasPrice", format_0x_x(a.gas_price)>> >>]]
\* lib.rs 747-752
token_total_supply(a) ==
    [module |-> "tokens", action |-> "tokenSupply",
     params |-> [struct |-> "ContractAddressQuery", fields |-> <<
             <<"contractaddress", a.contract_address>> >>]]
\* lib.rs 754-760
token_balance(a) ==
    [module |-> "tokens", action |-> "tokenBalance",
     params |-> [struct |-> "ContractByAddressQuery", fields |-> <<
             <<"contractaddress", a.contract_address>>,
             <<"address", a.address>> >>]]
\* lib.rs 762-768
token_supply_history(a) ==
    [module |-> "tokens", action |-> "tokenSupplyHistory",
     params |-> [struct |-> "ContractByBlockNumberQuery", fields |-> <<
             <<"contractaddress", a.contract_address>>,
             <<"blockno", a.blockno>> >>]]
\* lib.rs 770-777
token_balance_history(a) ==
    [module |-> "tokens", action |-> "tokenBalanceHistory",
     params |-> [struct |-> "ContractByAddressBlockNumberQuery", fields |-> <<
             <<"contractaddress", a.contract_address>>,
             <<"address", a.address>>,
             <<"blockno", a.blockno>> >>]]
\* lib.rs 779-786
token_holder_list(a) ==
    [module |-> "tokens", action |-> "tokennholderlist",
     params |-> [struct |-> "ContractAddressPaginatedQuery", fields |-> <<
             <<"contractaddress", a.contract_address>>,
             <<"page", a.page>>,
             <<"offset", a.offset>> >>]]
\* lib.rs 788-793
token_info(a) ==
    [module |-> "tokens", action |-> "tokenInfo",
     params |-> [struct |-> "ContractAddressQuery", fields |-> <<
             <<"contractaddress", a.contract_address>> >>]]
\* lib.rs 795-802
erc20_token_balance(a) ==
    [module |-> "tokens", action |-> "tokenBalance",
     params |-> [struct |-> "AddressPaginatedQuery", fields |-> <<
             <<"address", a.address>>,
             <<"page", a.page>>,
             <<"offset", a.offset>> >>]]
\* lib.rs 804-811
erc721_token_inventory(a) ==
    [module |-> "tokens", action |-> "tokennfttx",
     params |-> [struct |-> "AddressPaginatedQuery", fields |-> <<
             <<"address", a.address>>,
             <<"page", a.page>>,
             <<"offset", a.offset>> >>]]
\* lib.rs 813-821
erc721_token_inventory_by_contract(a) ==
    [module |-> "tokens", action |-> "tokennfttx",
     params |-> [struct |-> "ContractByAddressPaginatedQuery", fields |-> <<
             <<"contractaddress", a.contract_address>>,
             <<"address", a.address>>,
             <<"page", a.page>>,
             <<"offset", a.offset>> >>]]
\* lib.rs 827-832
estimate_confirmation_time(a) ==
    [module |-> "gastracker", action |-> "gasestimate",
     params |-> [struct |-> "GasPriceQuery", fields |-> <<
             <<"gasprice", format_0x_x(a.gas_price)>> >>]]
\* lib.rs 834-836
gas_oracle ==
    [module |-> "gastracker", action |-> "gasoracle",
     params |-> unit]
\* lib.rs 838-845
daily_average_gas_limit(a) ==
    [module |-> "stats", action |-> "dailyavggaslimit",
     params |-> [struct |-> "DateRangeQuery", fields |-> <<
             <<"startdate", a.start_date>>,
             <<"enddate", a.end_date>>,
             <<"sort", a.sort>> >>]]
\* lib.rs 847-854
daily_total_gas_used(a) ==
    [module |-> "stats", action |-> "dailygasused",
     params |-> [struct |-> "DateRangeQuery", fields |-> <<
             <<"startdate", a.start_date>>,
             <<"enddate", a.end_date>>,
             <<"sort", a.sort>> >>]]
\* lib.rs 856-863
daily_average_gas_price(a) ==
    [module |-> "stats", action |-> "dailyavggasprice",
     params |-> [struct |-> "DateRangeQuery", fields |-> <<
             <<"startdate", a.start_date>>,
             <<"enddate", a.end_date>>,
             <<"sort", a.sort>> >>]]
\* lib.rs 868-870
total_eth_supply ==
    [module |-> "stats", action |-> "ethsupply",
     params |-> unit]
\* lib.rs 872-874
total_eth2_supply ==
    [module |-> "stats", action |-> "ethsupply2",
     params |-> unit]
\* lib.rs 876-878
eth_price ==
    [module |-> "stats", action |-> "ethprice",
     params |-> unit]
\* lib.rs 880-889
chain_size(a) ==
    [module |-> "stats", action |-> "chainsize",
     params |-> [struct |-> "BlockchainSizeQuery", fields |-> <<
             <<"startdate", a.start_date>>,
             <<"enddate", a.end_date>>,
             <<"clienttype", a.client_type>>,
             <<"syncmode", a.sync_mode>>,
             <<"sort", a.sort>> >>]]
\* lib.rs 891-893
total_node_count ==
    [module |-> "stats", action |-> "nodecount",
     params |-> unit]
\* lib.rs 895-902
daily_total_transaction_fee(a) ==
    [module |-> "stats", action |-> "dailytxnsfee",
     params |-> [struct |-> "DateRangeQuery", fields |-> <<
             <<"startdate", a.start_date>>,
             <<"enddate", a.end_date>>,
             <<"sort", a.sort>> >>]]
\* lib.rs 904-911
daily_new_address_count(a) ==
    [module |-> "stats", action |-> "newaddress",
     params |-> [struct |-> "DateRangeQuery", fields |-> <<
             <<"startdate", a.start_date>>,
             <<"enddate", a.end_date>>,
             <<"sort", a.sort>> >>]]
\* lib.rs 913-920
daily_network_utilization(a) ==
    [module |-> "stats", action |-> "ethusd",
     params |-> [struct |-> "DateRangeQuery", fields |-> <<
             <<"startdate", a.start_date>>,
             <<"enddate", a.end_date>>,
             <<"sort", a.sort>> >>]]
\* lib.rs 922-929
daily_average_hash_rate(a) ==
    [module |-> "stats", action |-> "dailyhashrate",
     params |-> [struct |-> "DateRangeQuery", fields |-> <<
             <<"startdate", a.start_date>>,
             <<"enddate", a.end_date>>,
             <<"sort", a.sort>> >>]]
\* lib.rs 931-938
dailt_transaction_count(a) ==
    [module |-> "stats", action |-> "dailytxns",
     params |-> [struct |-> "DateRangeQuery", fields |-> <<
             <<"startdate", a.start_date>>,
             <<"enddate", a.end_date>>,
             <<"sort", a.sort>> >>]]
\* lib.rs 940-947
daily_average_difficulty(a) ==
    [module |-> "stats", action |-> "dailyavgdifficulty",
     params |-> [struct |-> "DateRangeQuery", fields |-> <<
             <<"startdate", a.start_date>>,
             <<"enddate", a.end_date>>,
             <<"sort", a.sort>> >>]]
\* lib.rs 949-956
daily_market_cap_history(a) ==
    [module |-> "stats", action |-> "ethdailymarketcap",
     params |-> [struct |-> "DateRangeQuery", fields |-> <<
             <<"startdate", a.start_date>>,
             <<"enddate", a.end_date>>,
             <<"sort", a.sort>> >>]]
\* lib.rs 958-965
daily_eth_price_history(a) ==
    [module |-> "stats", action |-> "ethdailyprice",
     params |-> [struct |-> "DateRangeQuery", fields |-> <<
             <<"startdate", a.start_date>>,
             <<"enddate", a.end_date>>,
             <<"sort", a.sort>> >>]]

\* The endpoint methods of AsyncClient (lib.rs 353-966).
Methods ==
    { "get_balance",
      "get_balance_multi",
      "get_tx_list",
      "get_tx_list_internal",
      "get_tx_list_internal_by_hash",
      "get_tx_list_internal_by_blockrange",
      "get_erc20_transfer_events",
      "get_erc721_transfer_events",
      "get_erc1155_transfer_events",
      "get_mined_blocks",
      "get_tx_list_beacon_withdrawal",
      "get_balance_history",
      "contract_abi",
      "contract_source_code",
      "contract_creation",
      "transaction_status",
      "transaction_receipt_status",
      "block_reward",
      "block_countdown",
      "block_number_by_timestamp",
      "daily_average_blocksize",
      "daily_block_count",
      "daily_block_rewards",
      "daily_block_time",
      "daily_uncle_block_count",
      "logs_by_address",
      "eth_get_block_number",
      "eth_get_block_by_number",
      "eth_get_uncle_by_block_number_and_index",
      "eth_get_transaction_by_hash",
      "eth_get_transaction_by_block_number_and_index",
      "eth_get_transaction_count",
      "eth_send_raw_transaction",
      "eth_get_transaction_receipt",
      "eth_call",
      "eth_get_code",
      "eth_get_storage_at",
      "eth_gas_price",
      "eth_estimate_gas",
      "token_total_supply",
      "token_balance",
      "token_supply_history",
      "token_balance_history",
      "token_holder_list",
      "token_info",
      "erc20_token_balance",
      "erc721_token_inventory",
      "erc721_token_inventory_by_contract",
      "estimate_confirmation_time",
      "gas_oracle",
      "daily_average_gas_limit",
      "daily_total_gas_used",
      "daily_average_gas_price",
      "total_eth_supply",
      "total_eth2_supply",
      "eth_price",
      "chain_size",
      "total_node_count",
      "daily_total_transaction_fee",
      "daily_new_address_count",
      "daily_network_utilization",
      "daily_average_hash_rate",
      "dailt_transaction_count",
      "daily_average_difficulty",
      "daily_market_cap_history",
      "daily_eth_price_history" }

\* The parameters of each endpoint method after &self, in the order of its
\* signature, each with its Rust type ("vec" is &Vec<&str>).
Signature(m) ==
    CASE m = "get_balance" ->
           << <<"address", "str">> >>
      [] m = "get_balance_multi" ->
           << <<"addresses", "vec">> >>
      [] m = "get_tx_list" ->
           << <<"address", "str">>, <<"start_block", "i64">>, <<"end_block", "i64">>, <<"page", "i64">>, <<"offset", "i64">>, <<"sort", "str">> >>
      [] m = "get_tx_list_internal" ->
           << <<"address", "str">>, <<"start_block", "i64">>, <<"end_block", "i64">>, <<"page", "i64">>, <<"offset", "i64">>, <<"sort", "str">> >>
      [] m = "get_tx_list_internal_by_hash" ->
           << <<"tx_hash", "str">> >>
      [] m = "get_tx_list_internal_by_blockrange" ->
           << <<"start_block", "i64">>, <<"end_block", "i64">>, <<"page", "i64">>, <<"offset", "i64">>, <<"sort", "str">> >>
      [] m = "get_erc20_transfer_events" ->
           << <<"address", "str">>, <<"contract_address", "str">>, <<"start_block", "i64">>, <<"end_block", "i64">>, <<"page", "i64">>, <<"offset", "i64">>, <<"sort", "str">> >>
      [] m = "get_erc721_transfer_events" ->
           << <<"address", "str">>, <<"contract_address", "str">>, <<"start_block", "i64">>, <<"end_block", "i64">>, <<"page", "i64">>, <<"offset", "i64">>, <<"sort", "str">> >>
      [] m = "get_erc1155_transfer_events" ->
           << <<"address", "str">>, <<"contract_address", "str">>, <<"start_block", "i64">>, <<"end_block", "i64">>, <<"page", "i64">>, <<"offset", "i64">>, <<"sort", "str">> >>
      [] m = "get_mined_blocks" ->
           << <<"address", "str">>, <<"blocktype", "str">>, <<"page", "i64">>, <<"offset", "i64">>, <<"sort", "str">> >>
      [] m = "get_tx_list_beacon_withdrawal" ->
           << <<"address", "str">>, <<"contract_address", "str">>, <<"start_block", "i64">>, <<"end_block", "i64">>, <<"page", "i64">>, <<"offset", "i64">>, <<"sort", "str">> >>
      [] m = "get_balance_history" ->
           << <<"address", "str">>, <<"blockno", "i64">> >>
      [] m = "contract_abi" ->
           << <<"address", "str">> >>
      [] m = "contract_source_code" ->
           << <<"address", "str">> >>
      [] m = "contract_creation" ->
           << <<"contract_addresses", "vec">> >>
      [] m = "transaction_status" ->
           << <<"tx_hash", "str">> >>
      [] m = "transaction_receipt_status" ->
           << <<"tx_hash", "str">> >>
      [] m = "block_reward" ->
           << <<"blockno", "i64">> >>
      [] m = "block_countdown" ->
           << <<"blockno", "i64">> >>
      [] m = "block_number_by_timestamp" ->
           << <<"timestamp", "i64">>, <<"closest", "str">> >>
      [] m = "daily_average_blocksize" ->
           << <<"start_date", "str">>, <<"end_date", "str">>, <<"sort", "str">> >>
      [] m = "daily_block_count" ->
           << <<"start_date", "str">>, <<"end_date", "str">>, <<"sort", "str">> >>
      [] m = "daily_block_rewards" ->
           << <<"start_date", "str">>, <<"end_date", "str">>, <<"sort", "str">> >>
      [] m = "daily_block_time" ->
           << <<"start_date", "str">>, <<"end_date", "str">>, <<"sort", "str">> >>
      [] m = "daily_uncle_block_count" ->
           << <<"start_date", "str">>, <<"end_date", "str">>, <<"sort", "str">> >>
      [] m = "logs_by_address" ->
           << <<"address", "str">>, <<"from_block", "i64">>, <<"to_block", "i64">>, <<"page", "i64">>, <<"offset", "i64">> >>
      [] m = "eth_get_block_number" -> <<>>
      [] m = "eth_get_block_by_number" ->
           << <<"blockno", "i64">>, <<"show_full_tx", "bool">> >>
      [] m = "eth_get_uncle_by_block_number_and_index" ->
           << <<"blockno", "i64">>, <<"index", "i64">> >>
      [] m = "eth_get_transaction_by_hash" ->
           << <<"tx_hash", "str">> >>
      [] m = "eth_get_transaction_by_block_number_and_index" ->
           << <<"blockno", "i64">>, <<"index", "i64">> >>
      [] m = "eth_get_transaction_count" ->
           << <<"address", "str">>, <<"tag", "str">> >>
      [] m = "eth_send_raw_transaction" ->
           << <<"hex", "str">> >>
      [] m = "eth_get_transaction_receipt" ->
           << <<"tx_hash", "str">> >>
      [] m = "eth_call" ->
           << <<"to", "str">>, <<"data", "str">>, <<"tag", "str">> >>
      [] m = "eth_get_code" ->
           << <<"address", "str">>, <<"tag", "str">> >>
      [] m = "eth_get_storage_at" ->
           << <<"address", "str">>, <<"position", "str">>, <<"tag", "str">> >>
      [] m = "eth_gas_price" -> <<>>
      [] m = "eth_estimate_gas" ->
           << <<"to", "str">>, <<"data", "str">>, <<"value", "i64">>, <<"gas", "i64">>, <<"gas_price", "i64">> >>
      [] m = "token_total_supply" ->
           << <<"contract_address", "str">> >>
      [] m = "token_balance" ->
           << <<"contract_address", "str">>, <<"address", "str">>, <<"tag", "str">> >>
      [] m = "token_supply_history" ->
           << <<"contract_address", "str">>, <<"blockno", "i64">>, <<"offset", "i64">>, <<"page", "i64">>, <<"sort", "str">> >>
      [] m = "token_balance_history" ->
           << <<"contract_address", "str">>, <<"address", "str">>, <<"blockno", "i64">>, <<"offset", "i64">>, <<"page", "i64">>, <<"sort", "str">> >>
      [] m = "token_holder_list" ->
           << <<"contract_address", "str">>, <<"page", "i64">>, <<"offset", "i64">>, <<"sort", "str">> >>
      [] m = "token_info" ->
           << <<"contract_address", "str">> >>
      [] m = "erc20_token_balance" ->
           << <<"address", "str">>, <<"page", "i64">>, <<"offset", "i64">> >>
      [] m = "erc721_token_inventory" ->
           << <<"address", "str">>, <<"page", "i64">>, <<"offset", "i64">> >>
      [] m = "erc721_token_inventory_by_contract" ->
           << <<"contract_address", "str">>, <<"address", "str">>, <<"page", "i64">>, <<"offset", "i64">> >>
      [] m = "estimate_confirmation_time" ->
           << <<"gas_price", "i64">> >>
      [] m = "gas_oracle" -> <<>>
      [] m = "daily_average_gas_limit" ->
           << <<"start_date", "str">>, <<"end_date", "str">>, <<"sort", "str">> >>
      [] m = "daily_total_gas_used" ->
           << <<"start_date", "str">>, <<"end_date", "str">>, <<"sort", "str">> >>
      [] m = "daily_average_gas_price" ->
           << <<"start_date", "str">>, <<"end_date", "str">>, <<"sort", "str">> >>
      [] m = "total_eth_supply" -> <<>>
      [] m = "total_eth2_supply" -> <<>>
      [] m = "eth_price" -> <<>>
      [] m = "chain_size" ->
           << <<"start_date", "str">>, <<"end_date", "str">>, <<"client_type", "str">>, <<"sync_mode", "str">>, <<"sort", "str">> >>
      [] m = "total_node_count" -> <<>>
      [] m = "daily_total_transaction_fee" ->
           << <<"start_date", "str">>, <<"end_date", "str">>, <<"sort", "str">> >>
      [] m = "daily_new_address_count" ->
           << <<"start_date", "str">>, <<"end_date", "str">>, <<"sort", "str">> >>
      [] m = "daily_network_utilization" ->
           << <<"start_date", "str">>, <<"end_date", "str">>, <<"sort", "str">> >>
      [] m = "daily_average_hash_rate" ->
           << <<"start_date", "str">>, <<"end_date", "str">>, <<"sort", "str">> >>
      [] m = "dailt_transaction_count" ->
           << <<"start_date", "str">>, <<"end_date", "str">>, <<"sort", "str">> >>
      [] m = "daily_average_difficulty" ->
           << <<"start_date", "str">>, <<"end_date", "str">>, <<"sort", "str">> >>
      [] m = "daily_market_cap_history" ->
           << <<"start_date", "str">>, <<"end_date", "str">>, <<"sort", "str">> >>
      [] m = "daily_eth_price_history" ->
           << <<"start_date", "str">>, <<"end_date", "str">>, <<"sort", "str">> >>

\* What the endpoint method m, called with the arguments a, hands to get().
EndpointCall(m, a) ==
    CASE m = "get_balance" -> get_balance(a)
      [] m = "get_balance_multi" -> get_balance_multi(a)
      [] m = "get_tx_list" -> get_tx_list(a)
      [] m = "get_tx_list_internal" -> get_tx_list_internal(a)
      [] m = "get_tx_list_internal_by_hash" -> get_tx_list_internal_by_hash(a)
      [] m = "get_tx_list_internal_by_blockrange" -> get_tx_list_internal_by_blockrange(a)
      [] m = "get_erc20_transfer_events" -> get_erc20_transfer_events(a)
      [] m = "get_erc721_transfer_events" -> get_erc721_transfer_events(a)
      [] m = "get_erc1155_transfer_events" -> get_erc1155_transfer_events(a)
      [] m = "get_mined_blocks" -> get_mined_blocks(a)
      [] m = "get_tx_list_beacon_withdrawal" -> get_tx_list_beacon_withdrawal(a)
      [] m = "get_balance_history" -> get_balance_history(a)
      [] m = "contract_abi" -> contract_abi(a)
      [] m = "contract_source_code" -> contract_source_code(a)
      [] m = "contract_creation" -> contract_creation(a)
      [] m = "transaction_status" -> transaction_status(a)
      [] m = "transaction_receipt_status" -> transaction_receipt_status(a)
      [] m = "block_reward" -> block_reward(a)
      [] m = "block_countdown" -> block_countdown(a)
      [] m = "block_number_by_timestamp" -> block_number_by_timestamp(a)
      [] m = "daily_average_blocksize" -> daily_average_blocksize(a)
      [] m = "daily_block_count" -> daily_block_count(a)
      [] m = "daily_block_rewards" -> daily_block_rewards(a)
      [] m = "daily_block_time" -> daily_block_time(a)
      [] m = "daily_uncle_block_count" -> daily_uncle_block_count(a)
      [] m = "logs_by_address" -> logs_by_address(a)
      [] m = "eth_get_block_number" -> eth_get_block_number
      [] m = "eth_get_block_by_number" -> eth_get_block_by_number(a)
      [] m = "eth_get_uncle_by_block_number_and_index" -> eth_get_uncle_by_block_number_and_index(a)
      [] m = "eth_get_transaction_by_hash" -> eth_get_transaction_by_hash(a)
      [] m = "eth_get_transaction_by_block_number_and_index" -> eth_get_transaction_by_block_number_and_index(a)
      [] m = "eth_get_transaction_count" -> eth_get_transaction_count(a)
      [] m = "eth_send_raw_transaction" -> eth_send_raw_transaction(a)
      [] m = "eth_get_transaction_receipt" -> eth_get_transaction_receipt(a)
      [] m = "eth_call" -> eth_call(a)
      [] m = "eth_get_code" -> eth_get_code(a)
      [] m = "eth_get_storage_at" -> eth_get_storage_at(a)
      [] m = "eth_gas_price" -> eth_gas_price
      [] m = "eth_estimate_gas" -> eth_estimate_gas(a)
      [] m = "token_total_supply" -> token_total_supply(a)
      [] m = "token_balance" -> token_balance(a)
      [] m = "token_supply_history" -> token_supply_history(a)
      [] m = "token_balance_history" -> token_balance_history(a)
      [] m = "token_holder_list" -> token_holder_list(a)
      [] m = "token_info" -> token_info(a)
      [] m = "erc20_token_balance" -> erc20_token_balance(a)
      [] m = "erc721_token_inventory" -> erc721_token_inventory(a)
      [] m = "erc721_token_inventory_by_contract" -> erc721_token_inventory_by_contract(a)
      [] m = "estimate_confirmation_time" -> estimate_confirmation_time(a)
      [] m = "gas_oracle" -> gas_oracle
      [] m = "daily_average_gas_limit" -> daily_average_gas_limit(a)
      [] m = "daily_total_gas_used" -> daily_total_gas_used(a)
      [] m = "daily_average_gas_price" -> daily_average_gas_price(a)
      [] m = "total_eth_supply" -> total_eth_supply
      [] m = "total_eth2_supply" -> total_eth2_supply
      [] m = "eth_price" -> eth_price
      [] m = "chain_size" -> chain_size(a)
      [] m = "total_node_count" -> total_node_count
      [] m = "daily_total_transaction_fee" -> daily_total_transaction_fee(a)
      [] m = "daily_new_address_count" -> daily_new_address_count(a)
      [] m = "daily_network_utilization" -> daily_network_utilization(a)
      [] m = "daily_average_hash_rate" -> daily_average_hash_rate(a)
      [] m = "dailt_transaction_count" -> dailt_transaction_count(a)
      [] m = "daily_average_difficulty" -> daily_average_difficulty(a)
      [] m = "daily_market_cap_history" -> daily_market_cap_history(a)
      [] m = "daily_eth_price_history" -> daily_eth_price_history(a)

(***************************************************************************)
(* Encoding of a record into query pairs.                                  *)
(***************************************************************************)
\* The text of one field value of the given Rust type.
SerializeValue(ty, v) ==
    CASE ty = "str" -> v
      [] ty = "i64" -> Dec(v)
      [] ty = "bool" -> IF v THEN "true" ELSE "false"

\* The value a struct literal gives to field f.
FieldValue(lit, f) ==
    lit[CHOOSE i \in 1..Len(lit) : lit[i][1] = f][2]

\* The Rust type a declaration gives to field f.
FieldType(decl, f) ==
    decl[CHOOSE i \in 1..Len(decl) : decl[i][1] = f][2]

\* A faulty variant of SerializeStruct: the fields in the order the struct
\* literal lists them in.
SerializeStruct_literal_order(decl, lit) ==
    [i \in 1..Len(lit) |->
        <<lit[i][1], SerializeValue(FieldType(decl, lit[i][1]), lit[i][2])>>]

\* #[derive(Serialize)]: every declared field, in declaration order, whatever
\* the order the struct literal lists them in.
SerializeStruct(decl, lit) ==
    [i \in 1..Len(decl) |->
        <<decl[i][1], SerializeValue(decl[i][2], FieldValue(lit, decl[i][1]))>>]

\* RequestBuilder::query(&p): the pairs p adds to the URL's query.
query(p) == SerializeStruct(StructDecl(p.struct), p.fields)

(***************************************************************************)
(* AsyncClient::get.                                                       *)
(***************************************************************************)
\* lib.rs 329-333: the base request get() builds.
base_request(key, module, action) ==
    [struct |-> "BaseApiRequest", fields |-> <<
        <<"module", module>>,
        <<"action", action>>,
        <<"apikey", key>> >>]

\* A faulty variant of get_request: the endpoint fields before the base fields.
get_request_params_first(key, module, action, params) ==
    [verb |-> "GET", url |-> API_URL,
     query |-> query(params) \o query(base_request(key, module, action))]

\* lib.rs 336-340: the request get() hands to the HTTP client.
get_request(key, module, action, params) ==
    [verb |-> "GET", url |-> API_URL,
     query |-> query(base_request(key, module, action)) \o query(params)]

\* A JSON value as ApiResponse sees it: a string, or any other value.
JsonOther == [kind |-> "other", s |-> ""]
JsonString(s) == [kind |-> "string", s |-> s]

\* What the HTTP exchange of one call delivers to get(): a transport failure
\* at send(), a transport failure while the body is read, or a body.  A body
\* is a JSON object, a JSON array, another JSON value, or not JSON.  The
\* items of an object are its members <<key, value>> in the order of the
\* text, repeated keys included; the items of an array are its elements, as
\* <<"", value>>.
ObjectBody(items) == [net |-> "body", json |-> "object", items |-> items]
ArrayBody(items) == [net |-> "body", json |-> "array", items |-> items]
ScalarBody == [net |-> "body", json |-> "scalar", items |-> <<>>]
InvalidBody == [net |-> "body", json |-> "invalid", items |-> <<>>]

StatusPool == {JsonOther, JsonString("1"), JsonString("0")}
ResultPool == {JsonOther, JsonString("12345"), JsonString("")}

\* No member or one member with key k.
Member(k, pool) == {<<>>} \cup {<< <<k, v>> >> : v \in pool}

\* The status member, none or one, then the result member, none or one.
PlainObjects ==
    {ObjectBody(st \o re) :
        st \in Member("status", StatusPool), re \in Member("result", ResultPool)}

\* The members in the other order; a member ApiResponse does not know; a key
\* twice.
OtherObjects ==
    {ObjectBody(<< <<"result", JsonString("12345")>>,
                   <<"status", JsonString("1")>> >>),
     ObjectBody(<< <<"status", JsonString("1")>>,
                   <<"message", JsonString("OK")>>,
                   <<"result", JsonString("12345")>> >>),
     ObjectBody(<< <<"status", JsonString("1")>>,
                   <<"status", JsonString("0")>>,
                   <<"result", JsonString("12345")>> >>),
     ObjectBody(<< <<"status", JsonString("1")>>,
                   <<"result", JsonString("12345")>>,
                   <<"result", JsonString("")>> >>)}

Arrays ==
    {ArrayBody(<< >>),
     ArrayBody(<< <<"", JsonString("1")>> >>),
     ArrayBody(<< <<"", JsonString("1")>>, <<"", JsonString("12345")>> >>),
     ArrayBody(<< <<"", JsonString("0")>>, <<"", JsonString("12345")>> >>),
     ArrayBody(<< <<"", JsonOther>>, <<"", JsonString("12345")>> >>),
     ArrayBody(<< <<"", JsonString("1")>>, <<"", JsonOther>> >>),
     ArrayBody(<< <<"", JsonString("1")>>, <<"", JsonString("12345")>>,
                  <<"", JsonString("")>> >>)}

Bodies == PlainObjects \cup OtherObjects \cup Arrays \cup {ScalarBody, InvalidBody}

NoBody == [net |-> "none", json |-> "none", items |-> <<>>]
SendFailure == [net |-> "send_failed", json |-> "none", items |-> <<>>]
BodyFailure == [net |-> "body_failed", json |-> "none", items |-> <<>>]

Ok(v) == [tag |-> "Ok", value |-> v]
Err(kind) == [tag |-> "Err", error |-> [type |-> "reqwest::Error", kind |-> kind]]
NoRet == [tag |-> "none"]

\* Option<String> of the derived visitor.
None == [some |-> FALSE, s |-> ""]
Some(s) == [some |-> TRUE, s |-> s]

RECURSIVE visit_map(_, _, _)
\* The derived visitor on a JSON object: the members in turn.  A known key
\* met again is an error (duplicate field); its value must be a string; any
\* other key is skipped.  At the end a field not met is an error (missing
\* field).
visit_map(items, status, result) ==
    IF items = <<>>
    THEN IF status.some /\ result.some
         THEN Ok([status |-> status.s, result |-> result.s])
         ELSE Err("decode")
    ELSE LET key == Head(items)[1]
             value == Head(items)[2]
         IN  IF key = "status"
             THEN IF status.some \/ value.kind # "string" THEN Err("decode")
                  ELSE visit_map(Tail(items), Some(value.s), result)
             ELSE IF key = "result"
             THEN IF result.some \/ value.kind # "string" THEN Err("decode")
                  ELSE visit_map(Tail(items), status, Some(value.s))
             ELSE visit_map(Tail(items), status, result)

\* The derived visitor on a JSON array: the first element is status, the
\* second is result; a missing element is an error (invalid length), and so
\* is an element left over when the visitor is done.
visit_seq(items) ==
    IF Len(items) < 1 \/ items[1][2].kind # "string" THEN Err("decode")
    ELSE IF Len(items) < 2 \/ items[2][2].kind # "string" THEN Err("decode")
    ELSE IF Len(items) > 2 THEN Err("decode")
    ELSE Ok([status |-> items[1][2].s, result |-> items[2][2].s])

\* #[derive(Deserialize)] struct ApiResponse, read from JSON text: an object
\* or an array is handed to the derived visitor, anything else is an error.
ApiResponse(body) ==
    IF body.json = "object" THEN visit_map(body.items, None, None)
    ELSE IF body.json = "array" THEN visit_seq(body.items)
    ELSE Err("decode")

\* A faulty variant of get_result: a status other than "1" is an error.
get_result_checks_status(body) ==
    LET response == ApiResponse(body)
    IN  IF response.tag = "Ok"
        THEN IF response.value.status = "1" THEN Ok(response.value.result)
             ELSE Err("status")
        ELSE response

\* lib.rs 342-346: what get() returns once the body has been read.
get_result(body) ==
    LET response == ApiResponse(body)
    IN  IF response.tag = "Ok" THEN Ok(response.value.result) ELSE response

NoCall == [method |-> "", args |-> <<>>]
NoGet == [module |-> "", action |-> "", params |-> unit]
NoRequest == [verb |-> "", url |-> "", query |-> <<>>]

RECURSIVE ArgSets(_)
\* The argument lists of a signature: every parameter drawn from the pool of
\* its type.
Pool(ty) ==
    CASE ty = "str" -> StrPool
      [] ty = "i64" -> IntPool
      [] ty = "bool" -> BOOLEAN
      [] ty = "vec" -> VecPool
ArgSets(sig) ==
    IF sig = <<>> THEN {<<>>}
    ELSE {(Head(sig)[1] :> v) @@ r : v \in Pool(Head(sig)[2]), r \in ArgSets(Tail(sig))}

InFlight == {c \in Callers : pc[c] # "idle"}
Started == Len(results) + Cardinality(InFlight)

\* AsyncClient::new(key), and nothing called yet.
ClientInit ==
    /\ key_arg \in Keys
    /\ api_key = key_arg
    /\ pc = [c \in Callers |-> "idle"]
    /\ call = [c \in Callers |-> NoCall]
    /\ get_in = [c \in Callers |-> NoGet]
    /\ request = [c \in Callers |-> NoRequest]
    /\ resp = [c \in Callers |-> NoBody]
    /\ ret = [c \in Callers |-> NoRet]
    /\ sent = 0
    /\ results = <<>>

\* Caller c calls an endpoint method m of the set M with arguments a: the
\* method builds its parameter record and calls get(), which builds the
\* request, hands it to the HTTP client and suspends at send().await.
CallFrom(c, M) ==
    /\ pc[c] = "idle"
    /\ Started < MaxCalls
    /\ \E m \in M : \E a \in ArgSets(Signature(m)) :
         LET g == EndpointCall(m, a)
         IN  /\ call' = [call EXCEPT ![c] = [method |-> m, args |-> a]]
             /\ get_in' = [get_in EXCEPT ![c] = g]
             /\ request' = [request EXCEPT ![c] =
                              get_request(api_key, g.module, g.action, g.params)]
    /\ sent' = sent + 1
    /\ pc' = [pc EXCEPT ![c] = "send"]
    /\ UNCHANGED << key_arg, api_key, resp, ret, results, other_vars >>

\* A call of any endpoint method.
Call(c) == CallFrom(c, Methods)

\* A call of one of the methods of ConcMethods.
CallConc(c) == CallFrom(c, ConcMethods)

\* send().await resolves to Ok: the response head has arrived; get() goes on to
\* json().await.
SendOk(c) ==
    /\ pc[c] = "send"
    /\ pc' = [pc EXCEPT ![c] = "json"]
    /\ UNCHANGED << key_arg, api_key, call, get_in, request, resp, ret, sent,
                    results, other_vars >>

\* A faulty variant of SendErr: the request is sent again.
SendErr_retry(c) ==
    /\ pc[c] = "send"
    /\ sent' = sent + 1
    /\ UNCHANGED << key_arg, api_key, pc, call, get_in, request, resp, ret,
                    results, other_vars >>

\* A faulty variant of SendErr: the failure leaves the client without its key.
SendErr_drops_key(c) ==
    /\ pc[c] = "send"
    /\ api_key' = ""
    /\ resp' = [resp EXCEPT ![c] = SendFailure]
    /\ ret' = [ret EXCEPT ![c] = Err("request")]
    /\ pc' = [pc EXCEPT ![c] = "returned"]
    /\ UNCHANGED << key_arg, call, get_in, request, sent, results,
                    other_vars >>

\* send().await resolves to Err: `?` returns it from get() and from the
\* endpoint method.
SendErr(c) ==
    /\ pc[c] = "send"
    /\ resp' = [resp EXCEPT ![c] = SendFailure]
    /\ ret' = [ret EXCEPT ![c] = Err("request")]
    /\ pc' = [pc EXCEPT ![c] = "returned"]
    /\ UNCHANGED << key_arg, api_key, call, get_in, request, sent, results,
                    other_vars >>

\* A faulty variant of JsonDone: the body read for one call is taken as the
\* response of every call suspended at json().await.
JsonDone_shared_response(c) ==
    /\ pc[c] = "json"
    /\ \E body \in Bodies :
         /\ resp' = [d \in Callers |-> IF pc[d] = "json" THEN body ELSE resp[d]]
         /\ ret' = [d \in Callers |->
                      IF pc[d] = "json" THEN get_result(body) ELSE ret[d]]
    /\ pc' = [d \in Callers |-> IF pc[d] = "json" THEN "returned" ELSE pc[d]]
    /\ UNCHANGED << key_arg, api_key, call, get_in, request, sent, results,
                    other_vars >>

\* json().await resolves with the body read: get() returns the result field of
\* the envelope, or the deserialization error.
JsonDone(c) ==
    /\ pc[c] = "json"
    /\ \E body \in Bodies :
         /\ resp' = [resp EXCEPT ![c] = body]
         /\ ret' = [ret EXCEPT ![c] = get_result(body)]
    /\ pc' = [pc EXCEPT ![c] = "returned"]
    /\ UNCHANGED << key_arg, api_key, call, get_in, request, sent, results,
                    other_vars >>

\* json().await fails while the body is read: `?` returns the transport error.
JsonErr(c) ==
    /\ pc[c] = "json"
    /\ resp' = [resp EXCEPT ![c] = BodyFailure]
    /\ ret' = [ret EXCEPT ![c] = Err("body")]
    /\ pc' = [pc EXCEPT ![c] = "returned"]
    /\ UNCHANGED << key_arg, api_key, call, get_in, request, sent, results,
                    other_vars >>

\* The caller takes the Result; the call's frame is gone.
Return(c) ==
    /\ pc[c] = "returned"
    /\ results' = Append(results, ret[c].tag)
    /\ pc' = [pc EXCEPT ![c] = "idle"]
    /\ call' = [call EXCEPT ![c] = NoCall]
    /\ get_in' = [get_in EXCEPT ![c] = NoGet]
    /\ request' = [request EXCEPT ![c] = NoRequest]
    /\ resp' = [resp EXCEPT ![c] = NoBody]
    /\ ret' = [ret EXCEPT ![c] = NoRet]
    /\ UNCHANGED << key_arg, api_key, sent, other_vars >>

(***************************************************************************)
(* impl Serialize for EventLogTopicPaginatedQuery (lib.rs 155-179).        *)
(*                                                                         *)
(* The encoder writes a sequence of bare values.  An element of the model  *)
(* is the value together with the name of the field it was read from, so   *)
(* that properties can tell which field an element is.  The serializer is  *)
(* one that accepts every element: the encoder has no error of its own.    *)
(***************************************************************************)
\* The records of the input pools.
TopicQueries ==
    [fromblock : IntPool, toblock : IntPool,
     topic0 : TopicPool, topic1 : TopicPool, topic2 : TopicPool, topic3 : TopicPool,
     topic0_1_opr : OprPool, topic1_2_opr : OprPool, topic2_3_opr : OprPool,
     page : IntPool, offset : IntPool]

NoTopicQuery ==
    [fromblock |-> 0, toblock |-> 0,
     topic0 |-> "", topic1 |-> "", topic2 |-> "", topic3 |-> "",
     topic0_1_opr |-> "and", topic1_2_opr |-> "and", topic2_3_opr |-> "and",
     page |-> 0, offset |-> 0]

NotSerialized == [tag |-> "none", seq |-> <<>>]

\* seq.serialize_element(&self.f)
serialize_element(seq, q, f) == Append(seq, [field |-> f, value |-> q[f]])

\* Faulty variants of serialize_boundary (used to test the properties below).
\* The topic without its operator.
serialize_boundary_no_opr(seq, q, topic, opr) ==
    IF q[topic] # "" THEN serialize_element(seq, q, topic) ELSE seq

\* The operator before the topic.
serialize_boundary_opr_first(seq, q, topic, opr) ==
    IF q[topic] # ""
    THEN serialize_element(serialize_element(seq, q, opr), q, topic)
    ELSE seq

\* The operator also when the topic is empty.
serialize_boundary_opr_always(seq, q, topic, opr) ==
    IF q[topic] # ""
    THEN serialize_element(serialize_element(seq, q, topic), q, opr)
    ELSE serialize_element(seq, q, opr)

\* lib.rs 163-166, 167-170, 171-174: one `if self.topicN != ""` block.
serialize_boundary(seq, q, topic, opr) ==
    IF q[topic] # ""
    THEN serialize_element(serialize_element(seq, q, topic), q, opr)
    ELSE seq

\* A faulty variant of serialize: a boundary is examined only if the topic
\* before it was present.
serialize_chained(q) ==
    LET e(seq, f) == serialize_element(seq, q, f)
        s3 == e(e(e(<<>>, "fromblock"), "toblock"), "topic0")
        s6 == IF q.topic1 = "" THEN s3
              ELSE LET s4 == e(e(s3, "topic1"), "topic0_1_opr")
                   IN  IF q.topic2 = "" THEN s4
                       ELSE LET s5 == e(e(s4, "topic2"), "topic1_2_opr")
                            IN  IF q.topic3 = "" THEN s5
                                ELSE e(e(s5, "topic3"), "topic2_3_opr")
    IN  [tag |-> "Ok", seq |-> e(e(s6, "page"), "offset")]

\* lib.rs 156-178
serialize(q) ==
    LET s1 == serialize_element(<<>>, q, "fromblock")
        s2 == serialize_element(s1, q, "toblock")
        s3 == serialize_element(s2, q, "topic0")
        s4 == serialize_boundary(s3, q, "topic1", "topic0_1_opr")
        s5 == serialize_boundary(s4, q, "topic2", "topic1_2_opr")
        s6 == serialize_boundary(s5, q, "topic3", "topic2_3_opr")
        s7 == serialize_element(s6, q, "page")
        s8 == serialize_element(s7, q, "offset")
    IN  [tag |-> "Ok", seq |-> s8]

\* The encoder is run on topic_query.
SerializeTopic ==
    /\ topic_out = NotSerialized
    /\ topic_out' = serialize(topic_query)
    /\ UNCHANGED << client_vars, topic_query, network, hex_in, hex_out >>

(***************************************************************************)
(* Specifications.                                                         *)
(***************************************************************************)
\* One caller uses the client, awaiting each call before making the next.
NoHexOut == <<>>

\* Nothing but the client is in use: no topic query, no hex input, and a
\* caller that means the client to talk to mainnet.
OthersIdle ==
    /\ topic_query = NoTopicQuery
    /\ topic_out = NotSerialized
    /\ network = "mainnet"
    /\ hex_in = 0
    /\ hex_out = NoHexOut

Init ==
    /\ ClientInit
    /\ OthersIdle

Next ==
    \E c \in SeqCallers :
        \/ Call(c)
        \/ SendOk(c)
        \/ SendErr(c)
        \/ JsonDone(c)
        \/ JsonErr(c)
        \/ Return(c)

Spec == Init /\ [][Next]_vars

\* The topic-filter encoder applied to every record of the input pools.
InitTopic ==
    /\ ClientInit
    /\ topic_query \in TopicQueries
    /\ topic_out = NotSerialized
    /\ network = "mainnet"
    /\ hex_in = 0
    /\ hex_out = NoHexOut

NextTopic == SerializeTopic

SpecTopic == InitTopic /\ [][NextTopic]_vars

\* Two callers share the client and their calls may overlap; the caller
\* means the client to talk to any one of the three networks.
InitConc ==
    /\ ClientInit
    /\ topic_query = NoTopicQuery
    /\ topic_out = NotSerialized
    /\ network \in Networks
    /\ hex_in = 0
    /\ hex_out = NoHexOut

NextConc ==
    \E c \in Callers :
        \/ CallConc(c)
        \/ SendOk(c)
        \/ SendErr(c)
        \/ JsonDone(c)
        \/ JsonErr(c)
        \/ Return(c)

SpecConc == InitConc /\ [][NextConc]_vars

(***************************************************************************)
(* Properties of the topic-filter encoder, checked under SpecTopic.        *)
(***************************************************************************)
Serialized == topic_out.tag = "Ok"

\* The fields the emitted elements were read from, in order.
EmittedFields == [i \in 1..Len(topic_out.seq) |-> topic_out.seq[i].field]

Emitted(f) == \E i \in 1..Len(topic_out.seq) : topic_out.seq[i].field = f

\* Every element carries the value of the field it was read from.
ValuesFromQuery ==
    \A i \in 1..Len(topic_out.seq) :
        topic_out.seq[i].value = topic_query[topic_out.seq[i].field]

TopicOf(i) ==
    CASE i = 0 -> "topic0" [] i = 1 -> "topic1" [] i = 2 -> "topic2" [] i = 3 -> "topic3"

\* The operator of the boundary before topic i (i in 1..3).
OprBefore(i) ==
    CASE i = 1 -> "topic0_1_opr" [] i = 2 -> "topic1_2_opr" [] i = 3 -> "topic2_3_opr"

Present(i) == topic_query[TopicOf(i)] # ""

\* A topic is empty only if all later topics are empty.
PrefixFull == \A i \in 0..2 : \A j \in (i + 1)..3 : ~Present(i) => ~Present(j)

\* C1 as claimed: the number of elements depends only on how many topics are
\* present: exactly 5 (fromblock, toblock, topic0, page, offset) with only
\* topic0 present, 7 with topic0 and topic1, 9 with all four topics.
C1_ElementCountAsClaimed ==
    Serialized =>
        /\ (Present(0) /\ ~Present(1) /\ ~Present(2) /\ ~Present(3)) =>
              /\ Len(topic_out.seq) = 5
              /\ EmittedFields = <<"fromblock", "toblock", "topic0", "page", "offset">>
        /\ (Present(0) /\ Present(1) /\ ~Present(2) /\ ~Present(3)) =>
              Len(topic_out.seq) = 7
        /\ (Present(0) /\ Present(1) /\ Present(2) /\ Present(3)) =>
              Len(topic_out.seq) = 9

\* C1 as amended: the encoder emits 5 elements plus 2 for each of
\* topic1..topic3 that is non-empty (topic0 is emitted in every case):
\* exactly 5 (fromblock, toblock, topic0, page, offset) with only topic0
\* present, 7 with topic0 and topic1, 9 with topic0..topic2, and 11 with
\* all four topics.
C1_ElementCount ==
    Serialized =>
        /\ Len(topic_out.seq) = 5 + 2 * Cardinality({i \in 1..3 : Present(i)})
        /\ (Present(0) /\ ~Present(1) /\ ~Present(2) /\ ~Present(3)) =>
              /\ Len(topic_out.seq) = 5
              /\ EmittedFields = <<"fromblock", "toblock", "topic0", "page", "offset">>
        /\ (Present(0) /\ Present(1) /\ ~Present(2) /\ ~Present(3)) =>
              Len(topic_out.seq) = 7
        /\ (Present(0) /\ Present(1) /\ Present(2) /\ ~Present(3)) =>
              Len(topic_out.seq) = 9
        /\ (Present(0) /\ Present(1) /\ Present(2) /\ Present(3)) =>
              Len(topic_out.seq) = 11

C1_Witness ==
    /\ Serialized
    /\ \A i \in 0..3 : Present(i)
    /\ Len(topic_out.seq) = 11

\* C2: for a prefix-full chain with n of topic1..topic3 present, the output
\* is fromblock, toblock, topic0 (also when topic0 is empty), then for
\* i = 1..n topic i immediately followed by the operator of the boundary
\* before it, then page and offset as the last two elements; every element
\* is the value of its field.
C2_PrefixFullOrder ==
    (Serialized /\ PrefixFull) =>
        LET n == Cardinality({i \in 1..3 : Present(i)})
            f == EmittedFields
        IN  /\ Len(f) = 5 + 2 * n
            /\ f[1] = "fromblock" /\ f[2] = "toblock" /\ f[3] = "topic0"
            /\ \A i \in 1..n :
                  /\ f[2 + 2 * i] = TopicOf(i)
                  /\ f[3 + 2 * i] = OprBefore(i)
            /\ f[Len(f) - 1] = "page" /\ f[Len(f)] = "offset"
            /\ ValuesFromQuery

C2_Witness ==
    /\ Serialized
    /\ Present(0) /\ Present(1) /\ Present(2) /\ ~Present(3)
    /\ EmittedFields = <<"fromblock", "toblock", "topic0", "topic1", "topic0_1_opr",
                         "topic2", "topic1_2_opr", "page", "offset">>

\* C3 as claimed: if topic i (i in 1..3) is empty, nothing is emitted for its
\* boundary, and no later topic and no operator of a later boundary is
\* emitted, whatever the later slots contain.
C3_StopsAtFirstEmpty ==
    Serialized =>
        \A i \in 1..3 : ~Present(i) =>
            /\ ~Emitted(TopicOf(i)) /\ ~Emitted(OprBefore(i))
            /\ \A j \in (i + 1)..3 : ~Emitted(TopicOf(j)) /\ ~Emitted(OprBefore(j))

\* C3 as amended: if topic i (i in 1..3) is empty, nothing is emitted for its
\* boundary; each later boundary is still examined on its own, so a later
\* topic j and its operator are emitted exactly when topic j is non-empty,
\* and none is emitted when the chain is prefix-full.
C3_EmptySkipsOwnBoundaryOnly ==
    Serialized =>
        \A i \in 1..3 : ~Present(i) =>
            /\ ~Emitted(TopicOf(i)) /\ ~Emitted(OprBefore(i))
            /\ \A j \in (i + 1)..3 :
                  /\ Emitted(TopicOf(j)) <=> Present(j)
                  /\ Emitted(OprBefore(j)) <=> Present(j)
                  /\ PrefixFull => (~Emitted(TopicOf(j)) /\ ~Emitted(OprBefore(j)))

C3_Witness ==
    /\ Serialized
    /\ ~Present(1) /\ Present(2) /\ ~Present(3)
    /\ ~Emitted("topic1") /\ ~Emitted("topic0_1_opr")
    /\ Emitted("topic2") /\ Emitted("topic1_2_opr")
    /\ ~Emitted("topic3")

\* C4: for every input, prefix-full or not, the operator of each boundary is
\* emitted iff the topic after the boundary is non-empty, whether or not the
\* topic before it is present; the encoder ends in Ok on every input, and a
\* record with topic2 present and topic1 empty encodes to a sequence with
\* topic2 and topic1_2_opr and without topic1 and topic0_1_opr.
C4_OperatorIffNextTopic ==
    (topic_out # NotSerialized) =>
        /\ topic_out.tag = "Ok"
        /\ \A i \in 1..3 : Emitted(OprBefore(i)) <=> Present(i)
        /\ (Present(2) /\ ~Present(1)) =>
              /\ Emitted("topic2") /\ Emitted("topic1_2_opr")
              /\ ~Emitted("topic1") /\ ~Emitted("topic0_1_opr")

C4_Witness ==
    /\ Serialized
    /\ Present(0) /\ ~Present(1) /\ Present(2) /\ Present(3)
    /\ EmittedFields = <<"fromblock", "toblock", "topic0", "topic2", "topic1_2_opr",
                         "topic3", "topic2_3_opr", "page", "offset">>

(***************************************************************************)
(* Properties of the endpoint methods and the dispatcher, checked under    *)
(* Spec.                                                                   *)
(***************************************************************************)
\* The pairs of a request's query after the three base fields.
EndpointPairs(c) == SubSeq(request[c].query, 4, Len(request[c].query))

\* C5: the query of every call carries every declared field of the call's
\* parameter record exactly once, in declaration order, with the value the
\* method gave the field (also an empty string): eth_estimate_gas emits
\* data, to, value, gas, gasPrice although it lists to before data, and
\* get_erc20_transfer_events emits address, contractaddress, page, offset,
\* startblock, endblock, sort.
C5_DeclaredFieldsInDeclarationOrder ==
    \A c \in Callers : pc[c] # "idle" =>
        LET decl == StructDecl(get_in[c].params.struct)
            lit == get_in[c].params.fields
            out == EndpointPairs(c)
            a == call[c].args
        IN  /\ Len(out) = Len(decl)
            /\ \A i \in 1..Len(decl) :
                  /\ out[i][1] = decl[i][1]
                  /\ \E j \in 1..Len(lit) :
                        /\ lit[j][1] = decl[i][1]
                        /\ out[i][2] = SerializeValue(decl[i][2], lit[j][2])
            /\ call[c].method = "eth_estimate_gas" =>
                  out = << <<"data", a.data>>, <<"to", a.to>>,
                           <<"value", format_0x_x(a.value)>>,
                           <<"gas", format_0x_x(a.gas)>>,
                           <<"gasPrice", format_0x_x(a.gas_price)>> >>
            /\ call[c].method = "get_erc20_transfer_events" =>
                  out = << <<"address", a.address>>,
                           <<"contractaddress", a.contract_address>>,
                           <<"page", Dec(a.page)>>, <<"offset", Dec(a.offset)>>,
                           <<"startblock", Dec(a.start_block)>>,
                           <<"endblock", Dec(a.end_block)>>,
                           <<"sort", a.sort>> >>

C5_Witness ==
    \E c \in Callers :
        /\ pc[c] = "send"
        /\ call[c].method = "eth_estimate_gas"
        /\ call[c].args.to = "" /\ call[c].args.data = "0xA"
        /\ EndpointPairs(c) = << <<"data", "0xA">>, <<"to", "">>, <<"value", "0xff">>,
                                 <<"gas", "0x0">>, <<"gasPrice", "0xff">> >>

\* C6: the request of every call is a GET whose query is module, action,
\* apikey, in this order, with the module and action handed to get() and the
\* key given to the constructor, followed by the fields of the endpoint
\* record; for the unit record the query is the three base fields only.
C6_BaseFieldsThenEndpointFields ==
    \A c \in Callers : pc[c] # "idle" =>
        /\ request[c].verb = "GET"
        /\ Len(request[c].query) >= 3
        /\ SubSeq(request[c].query, 1, 3) =
              << <<"module", get_in[c].module>>, <<"action", get_in[c].action>>,
                 <<"apikey", key_arg>> >>
        /\ EndpointPairs(c) = query(get_in[c].params)
        /\ get_in[c].params = unit => Len(request[c].query) = 3

C6_Witness ==
    \E c \in Callers :
        /\ pc[c] = "send"
        /\ call[c].method = "get_balance"
        /\ request[c].query =
              << <<"module", "account">>, <<"action", "balance">>,
                 <<"apikey", key_arg>>, <<"address", "0xA">>, <<"tag", "latest">> >>

\* The places of key k in a sequence of <<key, value>> pairs.
KeyPlaces(q, k) == {i \in 1..Len(q) : q[i][1] = k}

\* The body is a JSON envelope with both string fields: an object that holds
\* status and result, each once and each a string.
ValidEnvelope(body) ==
    /\ body.net = "body"
    /\ body.json = "object"
    /\ \A k \in {"status", "result"} :
          /\ Cardinality(KeyPlaces(body.items, k)) = 1
          /\ \A i \in KeyPlaces(body.items, k) : body.items[i][2].kind = "string"

\* The string an envelope holds under key k.
EnvelopeString(body, k) ==
    body.items[CHOOSE i \in 1..Len(body.items) : body.items[i][1] = k][2].s

\* The body b with "0" for the status wherever it holds a status.
WithStatus0(b) ==
    [b EXCEPT !.items =
        [i \in 1..Len(b.items) |->
            IF b.items[i][1] = "status" \/ (b.json = "array" /\ i = 1)
            THEN <<b.items[i][1], JsonString("0")>>
            ELSE b.items[i]]]

\* C7: a call whose exchange delivered a body that parses as an envelope
\* returns Ok with the envelope's result string, whatever the status; and
\* whatever body a call returned Ok for, the same body with status "0" gives
\* the same Ok.
C7_ResultVerbatimForEveryStatus ==
    \A c \in Callers :
        /\ (pc[c] = "returned" /\ ValidEnvelope(resp[c])) =>
              ret[c] = Ok(EnvelopeString(resp[c], "result"))
        /\ (pc[c] = "returned" /\ ret[c].tag = "Ok") =>
              get_result(WithStatus0(resp[c])) = ret[c]

C7_Witness ==
    \E c \in Callers :
        /\ pc[c] = "returned"
        /\ resp[c] = ObjectBody(<< <<"status", JsonString("0")>>,
                                  <<"result", JsonString("12345")>> >>)
        /\ ret[c] = Ok("12345")

\* C8: a call whose transport failed, or whose body is not a JSON envelope
\* with both string fields, returns Err, of the one error type, and returns
\* it at once: the failed call takes no further step.
C8_FailureIsErr ==
    \A c \in Callers :
        /\ resp[c].net \in {"send_failed", "body_failed"} => pc[c] = "returned"
        /\ (pc[c] = "returned" /\ ~ValidEnvelope(resp[c])) =>
              /\ ret[c].tag = "Err"
              /\ ret[c].error.type = "reqwest::Error"

\* A body without the result field has been answered with Err.
C8_Witness ==
    \E c \in Callers :
        /\ pc[c] = "returned"
        /\ resp[c] = ObjectBody(<< <<"status", JsonString("1")>> >>)
        /\ ret[c].tag = "Err"

\* C9: every call, returned or not, successful or not, has sent exactly one
\* request: the requests sent are as many as the calls made.
C9_OneRequestPerCall ==
    /\ sent = Started
    /\ InFlight = {} => sent = Len(results)

C9_Witness ==
    /\ InFlight = {}
    /\ results = <<"Err", "Err">>
    /\ sent = 2

\* C10: the client's api_key is the key it was constructed with, in every
\* state, and the request of every call carries it, also after calls that
\* returned an error.
C10_ClientUnchanged ==
    /\ api_key = key_arg
    /\ \A c \in Callers : pc[c] # "idle" =>
          request[c].query[3] = <<"apikey", key_arg>>

C10_Witness ==
    /\ results = <<"Err">>
    /\ api_key = key_arg
    /\ \E c \in Callers :
          /\ pc[c] = "returned"
          /\ ret[c] = Ok("12345")
          /\ request[c].query[3] = <<"apikey", key_arg>>

(***************************************************************************)
(* The methods that format an i64 as hex.                                  *)
(***************************************************************************)
\* The endpoint methods that hand an i64 to format!("0x{:x}", ..).
HexMethods ==
    {"eth_get_block_by_number",
     "eth_get_uncle_by_block_number_and_index",
     "eth_get_transaction_by_block_number_and_index",
     "eth_estimate_gas",
     "estimate_confirmation_time"}

RECURSIVE HexArgs(_, _)
\* Arguments for a signature: n for every i64.
HexArgs(sig, n) ==
    IF sig = <<>> THEN <<>>
    ELSE LET ty == Head(sig)[2]
             v == CASE ty = "i64" -> n
                    [] ty = "str" -> "0xA"
                    [] ty = "bool" -> TRUE
         IN  (Head(sig)[1] :> v) @@ HexArgs(Tail(sig), n)

\* Every hex-formatting method builds its record with hex_in for its
\* integers.
FormatHex ==
    /\ hex_out = NoHexOut
    /\ hex_out' = [m \in HexMethods |->
                     EndpointCall(m, HexArgs(Signature(m), hex_in)).params.fields]
    /\ UNCHANGED << client_vars, topic_query, topic_out, network, hex_in >>

InitHex ==
    /\ ClientInit
    /\ topic_query = NoTopicQuery
    /\ topic_out = NotSerialized
    /\ network = "mainnet"
    /\ hex_in \in HexInputs
    /\ hex_out = NoHexOut

NextHex == FormatHex

SpecHex == InitHex /\ [][NextHex]_vars

----------------------------------------------------------------------------
\* Overlapping calls on one shared client (SpecConc).

\* What get() returns for the response resp[c] to caller c's own request.
OwnOutcome(c) ==
    IF resp[c] = SendFailure THEN Err("request")
    ELSE IF resp[c] = BodyFailure THEN Err("body")
    ELSE get_result(resp[c])

\* The state of caller c's call is what c's own call and own response make it.
OwnCall(c) ==
    /\ pc[c] = "idle" =>
          /\ call[c] = NoCall
          /\ request[c] = NoRequest
          /\ resp[c] = NoBody
          /\ ret[c] = NoRet
    /\ pc[c] # "idle" =>
          LET g == EndpointCall(call[c].method, call[c].args)
          IN  /\ get_in[c] = g
              /\ request[c] = get_request(key_arg, g.module, g.action, g.params)
    /\ pc[c] \in {"send", "json"} => resp[c] = NoBody /\ ret[c] = NoRet
    /\ pc[c] = "returned" => ret[c] = OwnOutcome(c)

\* A step that is not a step of caller c leaves c's call as it was.
OthersUntouched ==
    \A c \in Callers :
        pc'[c] = pc[c] =>
            /\ call'[c] = call[c]
            /\ get_in'[c] = get_in[c]
            /\ request'[c] = request[c]
            /\ resp'[c] = resp[c]
            /\ ret'[c] = ret[c]

\* A step moves one caller only.
OneCallerMoves ==
    \A c, d \in Callers : (pc'[c] # pc[c] /\ pc'[d] # pc[d]) => c = d

\* An idle caller can start a call whatever the other callers are doing.
NoMutualExclusion ==
    \A c \in Callers :
        (pc[c] = "idle" /\ Started < MaxCalls) => ENABLED CallConc(c)

\* C11: in every interleaving of overlapping calls, each call's request is
\* the one built from its own arguments and the client's key, each call
\* returns the outcome of the response to its own request, a step of one call
\* changes nothing of another call, and a call can start while others are in
\* flight.
C11_CallsIndependent ==
    /\ [](\A c \in Callers : OwnCall(c))
    /\ []NoMutualExclusion
    /\ [][OthersUntouched /\ OneCallerMoves]_vars

\* Two calls overlapped, with different requests, and the one that started
\* with the other already in flight got its own result while the other got
\* its own error.
C11_Witness ==
    /\ sent = 2
    /\ results = << >>
    /\ pc["c1"] = "returned"
    /\ pc["c2"] = "returned"
    /\ call["c1"].method = "get_balance"
    /\ call["c2"].method = "eth_get_block_number"
    /\ request["c1"] # request["c2"]
    /\ ret["c1"] = Err("body")
    /\ ret["c2"] = Ok("12345")

----------------------------------------------------------------------------
\* The names of the base fields and of the endpoint parameter records.

BaseFieldNames == {"module", "action", "apikey"}

EndpointStructs ==
    {"AddressTagQuery", "TxListPaginatedQuery", "TxHashQuery",
     "BlockRangePaginatedQuery", "TokenEventsPaginatedQuery",
     "AddressBlocktypePaginatedQuery",
     "ContractByAddressBlockRangePaginatedQuery",
     "AddressBlockNumberQuery", "AddressQuery", "ContractAddressQuery",
     "BlockNumberQuery", "BlockTimestampQuery", "DateRangeQuery",
     "EventLogAddressPaginatedQuery", "EventLogTopicPaginatedQuery",
     "BlockNumberBoolQuery", "BlockNumberIndexQuery",
     "BlockNumberHexQuery", "RawTxQuery", "CallQuery",
     "StoragePositionQuery", "EstimateGasQuery", "ContractAddressesQuery",
     "ContractByAddressQuery", "ContractByAddressPaginatedQuery",
     "ContractByBlockNumberQuery", "ContractByAddressBlockNumberQuery",
     "ContractAddressPaginatedQuery", "AddressPaginatedQuery",
     "GasPriceQuery", "BlockchainSizeQuery"}

\* C12: no endpoint parameter record declares a field named module, action
\* or apikey, every call's record is one of those records or the unit record,
\* and the query of every request holds each of the three base keys exactly
\* once.
C12_BaseKeysExactlyOnce ==
    /\ \A s \in EndpointStructs :
          \A i \in 1..Len(StructDecl(s)) :
              StructDecl(s)[i][1] \notin BaseFieldNames
    /\ \A c \in Callers : pc[c] # "idle" =>
          /\ get_in[c].params.struct \in EndpointStructs \cup {"()"}
          /\ \A k \in BaseFieldNames :
                Cardinality(KeyPlaces(request[c].query, k)) = 1

\* A request of the endpoint with the most fields of its own is in flight.
C12_Witness ==
    \E c \in Callers :
        /\ pc[c] = "send"
        /\ get_in[c].params.struct \in EndpointStructs
        /\ Len(request[c].query) >= 9
        /\ \A k \in BaseFieldNames :
              Cardinality(KeyPlaces(request[c].query, k)) = 1

----------------------------------------------------------------------------
\* Arguments and the query.

\* The request a call of method m with arguments a sends.
RequestOf(m, a) ==
    LET g == EndpointCall(m, a)
    IN  get_request(api_key, g.module, g.action, g.params)

\* Argument p (of type ty) of the call of m with arguments a reaches the
\* request: some other value of p gives another request.
Reaches(m, a, p, ty) ==
    \E v \in Pool(ty) : RequestOf(m, [a EXCEPT ![p] = v]) # RequestOf(m, a)

\* The arguments of method m that no request of m depends on.
Dropped(m) ==
    {i \in 1..Len(Signature(m)) :
        \A a \in ArgSets(Signature(m)) :
            ~Reaches(m, a, Signature(m)[i][1], Signature(m)[i][2])}

\* C13: every argument of the call in flight reaches its request: the request
\* changes with the argument.
C13_EveryArgumentReachesQuery ==
    \A c \in Callers : pc[c] # "idle" =>
        LET sig == Signature(call[c].method)
        IN  \A i \in 1..Len(sig) :
                Reaches(call[c].method, call[c].args, sig[i][1], sig[i][2])

----------------------------------------------------------------------------
\* The base URL and the network.

\* The base URL lib.rs 6-8 defines for each network.
BaseUrl(n) ==
    CASE n = "mainnet" -> API_URL
      [] n = "goerli" -> GOERLI_API_URL
      [] n = "sepolia" -> SEPOLIA_API_URL

\* C14: every request goes to the base URL of the network the client is
\* meant for.
C14_UrlSelectedByNetwork ==
    \A c \in Callers : pc[c] # "idle" => request[c].url = BaseUrl(network)

----------------------------------------------------------------------------
\* The multi-address methods.

\* The methods that take a sequence of addresses, and for each the argument
\* that holds the sequence and the field that takes the joined text.
MultiAddress ==
    {<<"get_balance_multi", "addresses", "address">>,
     <<"contract_creation", "contract_addresses", "contractaddresses">>}

RECURSIVE SplitAtCommas(_, _, _)
\* The pieces of text s between its commas, after the pieces acc and the
\* begun piece cur.
SplitAtCommas(s, cur, acc) ==
    IF s = "" THEN Append(acc, cur)
    ELSE IF Head(s) = "," THEN SplitAtCommas(Tail(s), "", Append(acc, cur))
    ELSE SplitAtCommas(Tail(s), cur \o Head(s), acc)

RECURSIVE CountCommas(_)
CountCommas(s) ==
    IF s = "" THEN 0
    ELSE (IF Head(s) = "," THEN 1 ELSE 0) + CountCommas(Tail(s))

\* The value the query of caller c's request gives to key k.
QueryValue(c, k) ==
    LET q == request[c].query
    IN  q[CHOOSE i \in 1..Len(q) : q[i][1] = k][2]

\* C15: the request of a multi-address method holds, in the method's address
\* field (address for get_balance_multi, contractaddresses for
\* contract_creation), the input addresses in input order separated by
\* single commas: n addresses give n-1 commas, none leading or trailing, and
\* <<"0xA", "0xB", "0xC">> gives "0xA,0xB,0xC".
C15_AddressesCommaJoined ==
    \A c \in Callers : \A ma \in MultiAddress :
        (pc[c] # "idle" /\ call[c].method = ma[1]) =>
            LET v == call[c].args[ma[2]]
                f == QueryValue(c, ma[3])
            IN  /\ Cardinality(KeyPlaces(request[c].query, ma[3])) = 1
                /\ SplitAtCommas(f, "", << >>) = v
                /\ CountCommas(f) = Len(v) - 1
                /\ Head(f) # "," /\ SubSeq(f, Len(f), Len(f)) # ","
                /\ v = <<"0xA", "0xB", "0xC">> => f = "0xA,0xB,0xC"
                /\ Len(v) = 1 => f = v[1]

\* contract_creation is in flight with three addresses, joined by two commas.
C15_Witness ==
    \E c \in Callers :
        /\ pc[c] = "send"
        /\ call[c].method = "contract_creation"
        /\ call[c].args.contract_addresses = <<"0xA", "0xB", "0xC">>
        /\ request[c].query[4] = <<"contractaddresses", "0xA,0xB,0xC">>

----------------------------------------------------------------------------
\* Hex fields.

\* The fields the hex-formatting methods fill with a formatted integer.
HexFields ==
    {<<"eth_get_block_by_number", "tag">>,
     <<"eth_get_uncle_by_block_number_and_index", "tag">>,
     <<"eth_get_uncle_by_block_number_and_index", "index">>,
     <<"eth_get_transaction_by_block_number_and_index", "tag">>,
     <<"eth_get_transaction_by_block_number_and_index", "index">>,
     <<"eth_estimate_gas", "value">>,
     <<"eth_estimate_gas", "gas">>,
     <<"eth_estimate_gas", "gasPrice">>,
     <<"estimate_confirmation_time", "gasprice">>}

\* The value of a lower-case hexadecimal digit, -1 for any other character.
HexDigitValue(ch) ==
    CASE ch = "0" -> 0 [] ch = "1" -> 1 [] ch = "2" -> 2 [] ch = "3" -> 3
      [] ch = "4" -> 4 [] ch = "5" -> 5 [] ch = "6" -> 6 [] ch = "7" -> 7
      [] ch = "8" -> 8 [] ch = "9" -> 9 [] ch = "a" -> 10 [] ch = "b" -> 11
      [] ch = "c" -> 12 [] ch = "d" -> 13 [] ch = "e" -> 14 [] ch = "f" -> 15
      [] OTHER -> -1

RECURSIVE ParseHexFrom(_, _)
\* The number whose digits are those of acc followed by the text d.
ParseHexFrom(d, acc) ==
    IF d = "" THEN acc
    ELSE ParseHexFrom(Tail(d), 16 * acc + HexDigitValue(Head(d)))

\* The text d is one or more lower-case hexadecimal digits, without a
\* leading zero unless it is the single digit 0.
HexDigitsNoLeadingZero(d) ==
    /\ Len(d) >= 1
    /\ \A i \in 1..Len(d) : HexDigitValue(SubSeq(d, i, i)) >= 0
    /\ Len(d) > 1 => Head(d) # "0"

\* The text the record of method m gives to field f.
HexText(m, f) == FieldValue(hex_out[m], f)

\* C16: every hex field of every hex-formatting method is "0x" followed by
\* lower-case hexadecimal digits without leading zeros; 255 gives "0xff" and
\* 0 gives "0x0"; for a non-negative input the digits parse back to the
\* input.
C16_HexFields ==
    hex_out # NoHexOut =>
        \A mf \in HexFields :
            LET t == HexText(mf[1], mf[2])
                d == SubSeq(t, 3, Len(t))
            IN  /\ SubSeq(t, 1, 2) = "0x"
                /\ HexDigitsNoLeadingZero(d)
                /\ hex_in = 255 => t = "0xff"
                /\ hex_in = 0 => t = "0x0"
                /\ hex_in >= 0 => ParseHexFrom(d, 0) = hex_in

\* 255 has been formatted, as "0xff", in the gasPrice field of
\* eth_estimate_gas.
C16_Witness ==
    /\ hex_in = 255
    /\ hex_out # NoHexOut
    /\ HexText("eth_estimate_gas", "gasPrice") = "0xff"

----------------------------------------------------------------------------
\* Methods and their requests.

\* Methods m and n take the same arguments: as many, of the same types in the
\* same order.
SameArguments(m, n) ==
    /\ Len(Signature(m)) = Len(Signature(n))
    /\ \A i \in 1..Len(Signature(m)) : Signature(m)[i][2] = Signature(n)[i][2]

\* The arguments a of method m handed, in the same order, to method n.
HandedTo(n, m, a) ==
    [p \in {Signature(n)[i][1] : i \in 1..Len(Signature(n))} |->
        a[Signature(m)[CHOOSE i \in 1..Len(Signature(n)) :
                           Signature(n)[i][1] = p][1]]]

\* The methods other than m that take the same arguments as m and for which
\* some arguments give the request m gives for them.
SameRequestAs(m) ==
    {n \in Methods \ {m} :
        /\ SameArguments(m, n)
        /\ \E a \in ArgSets(Signature(m)) :
              RequestOf(n, HandedTo(n, m, a)) = RequestOf(m, a)}

\* C17: no method other than the one called, taking the same arguments,
\* gives for these arguments the request of the call in flight.
C17_DistinctMethodsDistinctRequests ==
    \A c \in Callers : pc[c] # "idle" =>
        \A n \in Methods \ {call[c].method} :
            SameArguments(call[c].method, n) =>
                RequestOf(n, HandedTo(n, call[c].method, call[c].args))
                    # request[c]

=============================================================================
